---- MODULE Spec2Model ----
(***************************************************************************)
(* The transaction completion protocol of src/src/transaction.rs:          *)
(* Transaction::{new, from_raw_version_change_event, on_drop, abort,       *)
(* commit}, the map_result! macro and Drop for Transaction, run against a  *)
(* native IDBTransaction and the listener channel that forwards its        *)
(* terminal event.                                                         *)
(***************************************************************************)
EXTENDS Integers, Sequences, FiniteSets, TLC

\* Number of handles that are constructed, one after the other, over the
\* same native transaction.
MaxHandles == 2

\* The errors the store can report through its error event.
StoreErrors == {"e1", "e2"}

NoError == "none"

\* The error a native commit/abort call throws on a transaction that is no
\* longer active.
NativeError == "InvalidStateError"

----------------------------------------------------------------------------
(* enum OnTransactionDrop, with its #[default]                             *)

OnTransactionDrop == {"Abort", "Commit"}

OnTransactionDrop_default == "Abort"

(* enum TransactionResult { Ok, Err(Error), Abort }                        *)

TxOk == [tag |-> "Ok", e |-> NoError]

TxAbort == [tag |-> "Abort", e |-> NoError]

TxErr(e) == [tag |-> "Err", e |-> e]

TransactionResult == {TxOk, TxAbort} \cup {TxErr(e) : e \in StoreErrors}

\* No terminal event yet.
TxNone == [tag |-> "None", e |-> NoError]

(* crate::Result<()>                                                       *)

Ok == [tag |-> "Ok", err |-> NoError]

Err(e) == [tag |-> "Err", err |-> e]

\* Nothing returned (yet).
NoResult == [tag |-> "None", err |-> NoError]

(* One entry of the record of what a handle did to its collaborators: a    *)
(* native call (ok: whether the native transaction accepted it), a         *)
(* listener teardown or a received terminal notification.                  *)
Ev(op, ok) == [op |-> op, ok |-> ok]

\* The shapes of event a schema-upgrade event can have.
VersionChangeEvents == {"no_target", "not_open_request", "no_transaction", "transaction"}

----------------------------------------------------------------------------
VARIABLES
    self,        \* the handle's fields: [done, on_drop]
    pc,          \* where the handle is in its life
    intent,      \* which of commit() / abort() was called on the handle
    log,         \* what the handle did: native calls, teardowns, receives
    result,      \* the crate::Result last returned to the caller
    received,    \* the terminal notification recv() handed to the handle
    tx,          \* the native transaction's state
    terminal,    \* the native transaction's terminal event
    chan,        \* the listeners' channel of the handle
    subscribed,  \* whether the handle's listeners are registered
    handles,     \* how many constructions were attempted
    source       \* what the last construction was given

vars == <<self, pc, intent, log, result, received, tx, terminal, chan, subscribed, handles, source>>

\* No handle is alive in these positions.
Gone == {"none", "returned", "cancelled", "abandoned", "dropped"}

----------------------------------------------------------------------------
(* The native transaction (TransactionSys over web_sys::IdbTransaction).   *)

\* A native commit or abort is accepted only by an active transaction.
sys_accepts(t) == t = "active"

sys_do_commit(t) == IF sys_accepts(t) THEN "commit_requested" ELSE t

sys_abort(t) == IF sys_accepts(t) THEN "abort_requested" ELSE t

----------------------------------------------------------------------------
\* map_result! with the unexpected arm taken for success.
map_result_coerce(expr, ok, unexpect, err) ==
    CASE expr.tag = ok -> Ok
      [] expr.tag = "Err" -> Err(expr.e)
      [] expr.tag = unexpect -> Ok

(* map_result!                                                             *)

map_result(expr, ok, unexpect, err) ==
    CASE expr.tag = ok -> Ok
      [] expr.tag = "Err" -> Err(expr.e)
      [] expr.tag = unexpect -> Err(err)

\* new with the policy of a JavaScript transaction.
new_commit == [done |-> FALSE, on_drop |-> "Commit"]

(* Transaction::new                                                        *)

new == [done |-> FALSE, on_drop |-> OnTransactionDrop_default]

\* drop that aborts whatever the policy.
drop_any_policy(s, lg, t) ==
    LET freed == Append(lg, Ev("free_listeners", TRUE))
    IN  IF ~s.done
        THEN [log |-> Append(freed, Ev("abort", sys_accepts(t))), tx |-> sys_abort(t)]
        ELSE [log |-> freed, tx |-> t]

\* drop that does not read done.
drop_ignore_done(s, lg, t) ==
    LET freed == Append(lg, Ev("free_listeners", TRUE))
    IN  IF s.on_drop = "Abort"
        THEN [log |-> Append(freed, Ev("abort", sys_accepts(t))), tx |-> sys_abort(t)]
        ELSE [log |-> freed, tx |-> t]

\* drop with `|` for `&`.
drop_or(s, lg, t) ==
    LET freed == Append(lg, Ev("free_listeners", TRUE))
    IN  IF (~s.done) \/ s.on_drop = "Abort"
        THEN [log |-> Append(freed, Ev("abort", sys_accepts(t))), tx |-> sys_abort(t)]
        ELSE [log |-> freed, tx |-> t]

\* drop that returns at once for a handle that is done.
drop_skip_free(s, lg, t) ==
    IF s.done
    THEN [log |-> lg, tx |-> t]
    ELSE LET freed == Append(lg, Ev("free_listeners", TRUE))
         IN  IF s.on_drop = "Abort"
             THEN [log |-> Append(freed, Ev("abort", sys_accepts(t))), tx |-> sys_abort(t)]
             ELSE [log |-> freed, tx |-> t]

\* drop that frees the listeners and makes no native call.
drop_free_only(s, lg, t) ==
    [log |-> Append(lg, Ev("free_listeners", TRUE)), tx |-> t]

\* drop that calls the native abort again when it was rejected.
drop_retry(s, lg, t) ==
    LET freed == Append(lg, Ev("free_listeners", TRUE))
        first == Append(freed, Ev("abort", sys_accepts(t)))
    IN  IF (~s.done) /\ s.on_drop = "Abort"
        THEN [log |-> IF sys_accepts(t) THEN first ELSE Append(first, Ev("abort", FALSE)),
              tx |-> sys_abort(t)]
        ELSE [log |-> freed, tx |-> t]

\* drop that calls the native abort before it frees the listeners.
drop_abort_first(s, lg, t) ==
    IF (~s.done) /\ s.on_drop = "Abort"
    THEN [log |-> Append(Append(lg, Ev("abort", sys_accepts(t))), Ev("free_listeners", TRUE)),
          tx |-> sys_abort(t)]
    ELSE [log |-> Append(lg, Ev("free_listeners", TRUE)), tx |-> t]

(* Drop for Transaction: the listeners are freed, then the native abort is *)
(* called when the handle is not done and its policy is Abort; the result  *)
(* of that call is discarded. s: the handle, lg: its log, t: the native    *)
(* transaction.                                                            *)

drop(s, lg, t) ==
    LET freed == Append(lg, Ev("free_listeners", TRUE))
    IN  IF (~s.done) /\ s.on_drop = "Abort"
        THEN [log |-> Append(freed, Ev("abort", sys_accepts(t))), tx |-> sys_abort(t)]
        ELSE [log |-> freed, tx |-> t]

\* The handle s goes out of scope and the position becomes p.
Destroy(s, lg, t, p) ==
    /\ log' = drop(s, lg, t).log
    /\ tx' = drop(s, lg, t).tx
    /\ subscribed' = FALSE
    /\ chan' = <<>>
    /\ pc' = p

----------------------------------------------------------------------------
Init ==
    /\ self = new
    /\ pc = "none"
    /\ intent = "none"
    /\ log = <<>>
    /\ result = NoResult
    /\ received = TxNone
    /\ tx = "active"
    /\ terminal = TxNone
    /\ chan = <<>>
    /\ subscribed = FALSE
    /\ handles = 0
    /\ source = "none"

\* A handle is bound to the native transaction and its listeners registered.
Bind ==
    /\ self' = new
    /\ pc' = "active"
    /\ intent' = "none"
    /\ log' = <<>>
    /\ result' = NoResult
    /\ received' = TxNone
    /\ chan' = <<>>
    /\ subscribed' = TRUE
    /\ handles' = handles + 1
    /\ UNCHANGED <<tx, terminal>>

(* Transaction::new called by the crate on a native transaction            *)
new_handle ==
    /\ pc \in Gone
    /\ handles < MaxHandles
    /\ source' = "new"
    /\ Bind

\* from_raw_version_change_event that reports a request without a
\* transaction as an event without a target.
from_raw_version_change_event_swapped(event) ==
    /\ pc \in Gone
    /\ handles < MaxHandles
    /\ source' = event
    /\ IF event = "transaction"
       THEN Bind
       ELSE /\ result' = Err(CASE event = "no_target" -> "NoEventTarget"
                               [] event = "not_open_request" -> "DynCast"
                               [] event = "no_transaction" -> "NoEventTarget")
            /\ pc' = "none"
            /\ intent' = "none"
            /\ log' = <<>>
            /\ received' = TxNone
            /\ chan' = <<>>
            /\ subscribed' = FALSE
            /\ handles' = handles + 1
            /\ UNCHANGED <<self, tx, terminal>>

(* Transaction::from_raw_version_change_event                              *)
from_raw_version_change_event(event) ==
    /\ pc \in Gone
    /\ handles < MaxHandles
    /\ source' = event
    /\ IF event = "transaction"
       THEN Bind
       ELSE /\ result' = Err(CASE event = "no_target" -> "NoEventTarget"
                               [] event = "not_open_request" -> "DynCast"
                               [] event = "no_transaction" -> "TransactionNotFound")
            /\ pc' = "none"
            /\ intent' = "none"
            /\ log' = <<>>
            /\ received' = TxNone
            /\ chan' = <<>>
            /\ subscribed' = FALSE
            /\ handles' = handles + 1
            /\ UNCHANGED <<self, tx, terminal>>

(* Transaction::on_drop                                                    *)
on_drop(p) ==
    /\ pc = "active"
    /\ self' = [self EXCEPT !.on_drop = p]
    /\ UNCHANGED <<pc, intent, log, result, received, tx, terminal, chan, subscribed, handles, source>>

(* The caller lets the handle go out of scope.                             *)
drop_handle ==
    /\ pc = "active"
    /\ Destroy(self, log, tx, "dropped")
    /\ UNCHANGED <<self, intent, result, received, terminal, handles, source>>

(* Transaction::abort and Transaction::commit are async fns: the call      *)
(* moves the handle into a future and runs nothing.                        *)
abort_call ==
    /\ pc = "active"
    /\ pc' = "abort_called"
    /\ intent' = "abort"
    /\ UNCHANGED <<self, log, result, received, tx, terminal, chan, subscribed, handles, source>>

\* commit_call that sets done when the call is made, before any poll.
commit_call_eager ==
    /\ pc = "active"
    /\ pc' = "commit_called"
    /\ intent' = "commit"
    /\ self' = [self EXCEPT !.done = TRUE]
    /\ UNCHANGED <<log, result, received, tx, terminal, chan, subscribed, handles, source>>

commit_call ==
    /\ pc = "active"
    /\ pc' = "commit_called"
    /\ intent' = "commit"
    /\ UNCHANGED <<self, log, result, received, tx, terminal, chan, subscribed, handles, source>>

\* Poll that leaves done as it was.
Poll_done_unset(native, next, waiting) ==
    LET s == self
        called == Append(log, Ev(native, sys_accepts(tx)))
    IN  /\ self' = s
        /\ IF sys_accepts(tx)
           THEN /\ log' = called
                /\ tx' = next
                /\ pc' = waiting
                /\ UNCHANGED <<result, chan, subscribed>>
           ELSE /\ result' = Err(NativeError)
                /\ Destroy(s, called, tx, "returned")
        /\ UNCHANGED <<intent, received, terminal, handles, source>>

\* Poll that discards the native call's error and goes on to recv().await.
Poll_ignore_error(native, next, waiting) ==
    /\ self' = [self EXCEPT !.done = TRUE]
    /\ log' = Append(log, Ev(native, sys_accepts(tx)))
    /\ tx' = next
    /\ pc' = waiting
    /\ UNCHANGED <<result, chan, subscribed, intent, received, terminal, handles, source>>

\* Poll that frees the listeners before it awaits their channel.
Poll_freed(native, next, waiting) ==
    LET s == [self EXCEPT !.done = TRUE]
        called == Append(log, Ev(native, sys_accepts(tx)))
    IN  /\ self' = s
        /\ IF sys_accepts(tx)
           THEN /\ log' = called
                /\ tx' = next
                /\ pc' = waiting
                /\ subscribed' = FALSE
                /\ UNCHANGED <<result, chan>>
           ELSE /\ result' = Err(NativeError)
                /\ Destroy(s, called, tx, "returned")
        /\ UNCHANGED <<intent, received, terminal, handles, source>>

\* Poll that sets done after the native call was accepted.
Poll_done_after(native, next, waiting) ==
    LET called == Append(log, Ev(native, sys_accepts(tx)))
    IN  /\ IF sys_accepts(tx)
           THEN /\ self' = [self EXCEPT !.done = TRUE]
                /\ log' = called
                /\ tx' = next
                /\ pc' = waiting
                /\ UNCHANGED <<result, chan, subscribed>>
           ELSE /\ self' = self
                /\ result' = Err(NativeError)
                /\ Destroy(self, called, tx, "returned")
        /\ UNCHANGED <<intent, received, terminal, handles, source>>

(* The first poll of the future, up to recv().await: done is set, the      *)
(* native call is made; a native error is returned by `?`, which drops the *)
(* handle. native: the native call's name, next: its effect on the         *)
(* transaction, waiting: the position at recv().await.                     *)
Poll(native, next, waiting) ==
    LET s == [self EXCEPT !.done = TRUE]
        called == Append(log, Ev(native, sys_accepts(tx)))
    IN  /\ self' = s
        /\ IF sys_accepts(tx)
           THEN /\ log' = called
                /\ tx' = next
                /\ pc' = waiting
                /\ UNCHANGED <<result, chan, subscribed>>
           ELSE /\ result' = Err(NativeError)
                /\ Destroy(s, called, tx, "returned")
        /\ UNCHANGED <<intent, received, terminal, handles, source>>

abort_poll ==
    /\ pc = "abort_called"
    /\ Poll("abort", sys_abort(tx), "abort_recv")

commit_poll ==
    /\ pc = "commit_called"
    /\ Poll("do_commit", sys_do_commit(tx), "commit_recv")

\* Resume that drops the handle before recv() hands over the notification.
Resume_free_first(classified) ==
    /\ chan # <<>>
    /\ received' = Head(chan)
    /\ result' = classified
    /\ log' = Append(drop(self, log, tx).log, Ev("recv", TRUE))
    /\ tx' = drop(self, log, tx).tx
    /\ subscribed' = FALSE
    /\ chan' = <<>>
    /\ pc' = "returned"
    /\ UNCHANGED <<self, intent, terminal, handles, source>>

(* The future is woken with a notification in the channel: recv() returns  *)
(* it, map_result! classifies it, the handle is dropped and the result is  *)
(* returned.                                                               *)
Resume(classified) ==
    /\ chan # <<>>
    /\ received' = Head(chan)
    /\ result' = classified
    /\ Destroy(self, Append(log, Ev("recv", TRUE)), tx, "returned")
    /\ UNCHANGED <<self, intent, terminal, handles, source>>

abort_resume ==
    /\ pc = "abort_recv"
    /\ chan # <<>>
    /\ Resume(map_result(Head(chan), "Abort", "Ok", "TransactionCommitted"))

\* commit_resume that classifies as abort() does.
commit_resume_swapped ==
    /\ pc = "commit_recv"
    /\ chan # <<>>
    /\ Resume(map_result(Head(chan), "Abort", "Ok", "TransactionCommitted"))

commit_resume ==
    /\ pc = "commit_recv"
    /\ chan # <<>>
    /\ Resume(map_result(Head(chan), "Ok", "Abort", "TransactionAborted"))

(* The caller drops the future while it is suspended at recv().await.      *)
cancel ==
    /\ pc \in {"abort_recv", "commit_recv"}
    /\ Destroy(self, log, tx, "cancelled")
    /\ UNCHANGED <<self, intent, result, received, terminal, handles, source>>

(* The caller drops the future before it was ever polled.                  *)
abandon ==
    /\ pc \in {"abort_called", "commit_called"}
    /\ Destroy(self, log, tx, "abandoned")
    /\ UNCHANGED <<self, intent, result, received, terminal, handles, source>>

----------------------------------------------------------------------------
(* The store. Its terminal event reaches the channel of the handle whose   *)
(* listeners are registered.                                               *)

Terminate(n) ==
    /\ tx' = "finished"
    /\ terminal' = n
    /\ chan' = IF subscribed THEN Append(chan, n) ELSE chan
    /\ UNCHANGED <<self, pc, intent, log, result, received, subscribed, handles, source>>

\* The store ends an active transaction by itself.
store_auto(n) ==
    /\ tx = "active"
    /\ Terminate(n)

\* The store ends a transaction whose commit or abort it accepted.
store_finish(n) ==
    /\ tx \in {"commit_requested", "abort_requested"}
    /\ Terminate(n)

----------------------------------------------------------------------------
Next ==
    \/ new_handle
    \/ \E event \in VersionChangeEvents : from_raw_version_change_event(event)
    \/ \E p \in OnTransactionDrop : on_drop(p)
    \/ drop_handle
    \/ abort_call
    \/ commit_call
    \/ abort_poll
    \/ commit_poll
    \/ abort_resume
    \/ commit_resume
    \/ cancel
    \/ abandon
    \/ \E n \in TransactionResult : store_auto(n)
    \/ \E n \in TransactionResult : store_finish(n)

Spec == Init /\ [][Next]_vars

TypeOK ==
    /\ self \in [done : BOOLEAN, on_drop : OnTransactionDrop]
    /\ pc \in Gone \cup {"active", "abort_called", "commit_called", "abort_recv", "commit_recv"}
    /\ intent \in {"none", "abort", "commit"}
    /\ result.tag \in {"None", "Ok", "Err"}
    /\ received \in TransactionResult \cup {TxNone}
    /\ tx \in {"active", "commit_requested", "abort_requested", "finished"}
    /\ terminal \in TransactionResult \cup {TxNone}
    /\ Len(chan) <= 1
    /\ subscribed \in BOOLEAN
    /\ handles \in 0..MaxHandles
    /\ source \in {"none", "new"} \cup VersionChangeEvents

\* The executor polls a future that is awaited, and the store ends a
\* transaction whose commit or abort it accepted.
LiveSpec ==
    /\ Spec
    /\ WF_vars(abort_poll)
    /\ WF_vars(commit_poll)
    /\ WF_vars(abort_resume)
    /\ WF_vars(commit_resume)
    /\ WF_vars(\E n \in TransactionResult : store_finish(n))

----------------------------------------------------------------------------
(* What the properties read off the state.                                 *)

\* How many times the handle did op.
Count(lg, op) == Cardinality({i \in DOMAIN lg : lg[i].op = op})

\* The native calls the handle made, in order.
NativeCalls(lg) == SelectSeq(lg, LAMBDA x : x.op \in {"do_commit", "abort"})

\* The native call of an intent.
NativeOf(i) == IF i = "commit" THEN "do_commit" ELSE "abort"

\* The handle was destroyed.
Destroyed == pc \in Gone \ {"none"}

\* commit() or abort() is suspended at recv().await.
Suspended == pc \in {"abort_recv", "commit_recv"}

\* The native call of commit() or abort() was rejected.
NativeFailed == self.done /\ log # <<>> /\ ~log[1].ok

----------------------------------------------------------------------------
\* C1: commit() that returns after a notification returns Ok for Committed,
\* Err(e) for Errored(e) and Err(TransactionAborted) for Aborted, the
\* notification being the store's terminal event; it returns Ok for no other
\* notification and never returns TransactionCommitted.
C1_CommitOutcome ==
    (pc = "returned" /\ intent = "commit") =>
        /\ received # TxNone => received = terminal
        /\ received = TxOk => result = Ok
        /\ \A e \in StoreErrors : received = TxErr(e) => result = Err(e)
        /\ received = TxAbort => result = Err("TransactionAborted")
        /\ result = Ok => received = TxOk
        /\ result # Err("TransactionCommitted")

C1_Witness ==
    /\ pc = "returned"
    /\ intent = "commit"
    /\ received = TxAbort
    /\ result = Err("TransactionAborted")

\* C2: abort() that returns after a notification returns Ok for Aborted,
\* Err(e) for Errored(e) and Err(TransactionCommitted) for Committed; it
\* returns Ok for no other notification and never returns TransactionAborted.
C2_AbortOutcome ==
    (pc = "returned" /\ intent = "abort") =>
        /\ received # TxNone => received = terminal
        /\ received = TxAbort => result = Ok
        /\ \A e \in StoreErrors : received = TxErr(e) => result = Err(e)
        /\ received = TxOk => result = Err("TransactionCommitted")
        /\ result = Ok => received = TxAbort
        /\ result # Err("TransactionAborted")

C2_Witness ==
    /\ pc = "returned"
    /\ intent = "abort"
    /\ received = TxOk
    /\ result = Err("TransactionCommitted")

\* C3: a handle makes at most one native commit or abort call in its life,
\* the explicit call and the one of its destruction counted together.
C3_AtMostOneNativeCall == Len(NativeCalls(log)) <= 1

C3_Witness ==
    /\ pc = "cancelled"
    /\ self.on_drop = "Abort"
    /\ Len(NativeCalls(log)) = 1

\* C4: a handle is constructed with done = FALSE and policy Abort; a handle
\* destroyed with done = FALSE and policy Abort made exactly one native abort
\* call and no native commit call.
C4_AbortOnDrop ==
    /\ [][(pc \in Gone /\ pc' = "active") => self' = [done |-> FALSE, on_drop |-> "Abort"]]_vars
    /\ []((Destroyed /\ ~self.done /\ self.on_drop = "Abort") =>
            (Count(log, "abort") = 1 /\ Count(log, "do_commit") = 0))

C4_Witness ==
    /\ pc = "dropped"
    /\ ~self.done
    /\ self.on_drop = "Abort"
    /\ log = <<Ev("free_listeners", TRUE), Ev("abort", TRUE)>>

\* C5: a handle destroyed with done = FALSE and policy Commit made no native
\* call, neither commit nor abort.
C5_CommitOnDrop ==
    (Destroyed /\ ~self.done /\ self.on_drop = "Commit") => NativeCalls(log) = <<>>

C5_Witness ==
    /\ pc = "dropped"
    /\ ~self.done
    /\ self.on_drop = "Commit"
    /\ log = <<Ev("free_listeners", TRUE)>>

\* What commit() / abort() returns, from the intent, whether the native call
\* was accepted and the notification received: the drop policy is no part
\* of it.
Outcome(i, accepted, n) ==
    IF ~accepted THEN Err(NativeError)
    ELSE IF n.tag = "Err" THEN Err(n.e)
    ELSE IF (i = "commit" /\ n = TxOk) \/ (i = "abort" /\ n = TxAbort) THEN Ok
    ELSE Err(IF i = "commit" THEN "TransactionAborted" ELSE "TransactionCommitted")

\* C6: a handle finalized by commit() / abort() and destroyed made the one
\* native call of its intent and no other, under either policy; the native
\* calls and the returned outcome are determined by the intent, the native
\* call's acceptance and the notification, whatever the policy.
C6_PolicyIrrelevantOnceFinalized ==
    (self.done /\ Destroyed) =>
        /\ NativeCalls(log) = <<Ev(NativeOf(intent), log[1].ok)>>
        /\ pc = "returned" => result = Outcome(intent, log[1].ok, received)

C6_Witness ==
    /\ pc = "returned"
    /\ self.done
    /\ self.on_drop = "Abort"
    /\ intent = "commit"
    /\ result = Ok

\* C7: the listeners of a handle are freed exactly once in its life: not
\* while it is alive, once when it is destroyed, on every path.
C7_TeardownOnce ==
    /\ Destroyed => (Count(log, "free_listeners") = 1 /\ ~subscribed)
    /\ ~Destroyed => Count(log, "free_listeners") = 0
    /\ pc \notin Gone => subscribed

C7_Witness ==
    /\ pc = "returned"
    /\ received # TxNone
    /\ Count(log, "free_listeners") = 1

\* C8: when the native call of commit() / abort() is rejected, the call has
\* returned the native error, without waiting for or receiving a
\* notification.
C8_NativeFailureReturned ==
    NativeFailed =>
        /\ pc = "returned"
        /\ result = Err(NativeError)
        /\ received = TxNone
        /\ Count(log, "recv") = 0

C8_Witness ==
    /\ NativeFailed
    /\ intent = "commit"
    /\ handles = 1
    /\ terminal = TxAbort
    /\ result = Err(NativeError)

\* C9: cancelling commit() / abort() suspended at recv().await makes no
\* native call under either policy and leaves the native transaction as the
\* accepted commit / abort put it.
C9_CancelNoRollback ==
    /\ [][(Suspended /\ pc' = "cancelled") =>
            (tx' = tx /\ NativeCalls(log') = NativeCalls(log))]_vars
    /\ [](pc = "cancelled" =>
            /\ NativeCalls(log) = <<Ev(NativeOf(intent), TRUE)>>
            /\ tx \in {IF intent = "commit" THEN "commit_requested" ELSE "abort_requested", "finished"})

C9_Witness ==
    /\ pc = "cancelled"
    /\ self.on_drop = "Abort"
    /\ intent = "commit"
    /\ tx = "commit_requested"

\* C10: with a store that ends every transaction whose commit / abort it
\* accepted, a call that is awaited returns unless its future is dropped,
\* and a suspended call returns unless it is cancelled; a suspended call
\* returns only by receiving a notification, and has no outcome while none
\* was delivered.
C10_EventuallyReturns ==
    /\ (pc \in {"abort_called", "commit_called"}) ~> (pc \in {"returned", "cancelled", "abandoned"})
    /\ Suspended ~> (pc \in {"returned", "cancelled"})
    /\ [][(Suspended /\ pc' = "returned") => (chan # <<>> /\ received' = Head(chan))]_vars
    /\ []((Suspended /\ chan = <<>>) => result = NoResult)

C10_Witness ==
    /\ pc = "returned"
    /\ received # TxNone
    /\ result # NoResult

\* The store ends an active transaction once its requests are done, besides
\* what LiveSpec assumes.
StoreLiveSpec ==
    /\ LiveSpec
    /\ WF_vars(\E n \in TransactionResult : store_auto(n))

\* What abort() does to the native transaction t: the native calls made and
\* the state the transaction is left in.
SameAsAbort(t, lg, t2) ==
    /\ NativeCalls(lg) = <<Ev("abort", sys_accepts(t))>>
    /\ t2 = sys_abort(t)

\* abort() runs up to its native call.
AbortStep == pc = "abort_called" /\ pc' \in {"abort_recv", "returned"}

\* The caller drops a handle on which neither commit() nor abort() was called.
DropStep == pc = "active" /\ pc' = "dropped"

\* C11 as claimed: a handle dropped without commit() makes the native calls
\* abort() makes and leaves the native transaction as abort() leaves it, in
\* every state of the handle and the store.
C11_DropActsAsAbort ==
    [][/\ AbortStep => SameAsAbort(tx, log', tx')
       /\ DropStep => SameAsAbort(tx, log', tx')]_vars

\* C11: a handle whose policy is Abort, dropped without commit(), makes the
\* native calls abort() makes and leaves the native transaction as abort()
\* leaves it, also when the store has ended the transaction already.
C11_DropActsAsAbortUnderAbort ==
    [][/\ AbortStep => SameAsAbort(tx, log', tx')
       /\ (DropStep /\ self.on_drop = "Abort") => SameAsAbort(tx, log', tx')]_vars

C11_Witness ==
    /\ pc = "dropped"
    /\ self.on_drop = "Abort"
    /\ tx = "finished"
    /\ terminal = TxOk
    /\ log = <<Ev("free_listeners", TRUE), Ev("abort", FALSE)>>

\* The store ends by itself the transaction of a handle that was dropped
\* with policy Commit and never finalized.
AutoEndAfterCommitDrop ==
    /\ pc = "dropped"
    /\ ~self.done
    /\ self.on_drop = "Commit"
    /\ tx = "active"
    /\ tx' # tx

\* C12 as claimed: the transaction of a handle dropped with policy Commit
\* and never finalized ends committed.
C12_DropCommits ==
    [][AutoEndAfterCommitDrop => terminal' = TxOk]_vars

\* C12: a handle dropped with policy Commit and never finalized makes no
\* native call and leaves the native transaction as it is; the transaction
\* is ended by the store, with the terminal event the store chooses, and it
\* does end.
C12_DropLeavesItToTheStore ==
    /\ [][(DropStep /\ self.on_drop = "Commit") =>
            (tx' = tx /\ NativeCalls(log') = <<>>)]_vars
    /\ [][AutoEndAfterCommitDrop =>
            (tx' = "finished" /\ terminal' \in TransactionResult /\ log' = log)]_vars
    /\ (pc = "dropped" /\ ~self.done /\ self.on_drop = "Commit") ~> (tx = "finished")

C12_Witness ==
    /\ pc = "dropped"
    /\ ~self.done
    /\ self.on_drop = "Commit"
    /\ handles = 1
    /\ tx = "finished"
    /\ terminal = TxOk
    /\ log = <<Ev("free_listeners", TRUE)>>

\* commit() runs up to its native call.
CommitStep == pc = "commit_called" /\ pc' \in {"commit_recv", "returned"}

\* C13: a native call accepted through a handle leaves the transaction not
\* active, for good; commit() through a later handle on that transaction
\* returns the native error from its first poll, receives no notification
\* and does not return Ok.
C13_SecondCommitRejected ==
    /\ []((\E i \in DOMAIN log : log[i].op \in {"do_commit", "abort"} /\ log[i].ok) => tx # "active")
    /\ [][tx # "active" => tx' # "active"]_vars
    /\ [][(CommitStep /\ tx # "active") =>
            /\ pc' = "returned"
            /\ result' = Err(NativeError)
            /\ received' = TxNone
            /\ Count(log', "recv") = 0]_vars

C13_Witness ==
    /\ handles = 2
    /\ pc = "returned"
    /\ intent = "commit"
    /\ tx = "commit_requested"
    /\ result = Err(NativeError)
    /\ log = <<Ev("do_commit", FALSE), Ev("free_listeners", TRUE)>>

\* No handle was made by the last construction.
NoHandle == pc = "none" /\ log = <<>> /\ chan = <<>> /\ ~subscribed

\* C14: from_raw_version_change_event fails with TransactionNotFound for a
\* request without a transaction, NoEventTarget for an event without a
\* target and a cast error for a target that is no open request; then there
\* is no handle, no native call, no subscription, and the native transaction
\* is untouched. An event with a transaction yields a handle.
C14_ConstructionErrors ==
    /\ [](/\ source = "no_transaction" => (result = Err("TransactionNotFound") /\ NoHandle)
          /\ source = "no_target" => (result = Err("NoEventTarget") /\ NoHandle)
          /\ source = "not_open_request" => (result = Err("DynCast") /\ NoHandle)
          /\ source = "transaction" => pc # "none")
    /\ [][(handles' # handles /\ source' \in VersionChangeEvents \ {"transaction"}) =>
            (tx' = tx /\ terminal' = terminal)]_vars

C14_Witness ==
    /\ source = "no_transaction"
    /\ result = Err("TransactionNotFound")
    /\ pc = "none"
    /\ handles = 1

\* C15: commit() / abort() set done before the native call: a call that is
\* suspended has done set, and a call that returned the native error was
\* dropped with done set, so that the rejected call is the only native call
\* of the handle, under policy Abort too.
C15_DoneBeforeNativeCall ==
    /\ Suspended => self.done
    /\ (pc = "returned" /\ received = TxNone) =>
        /\ self.done
        /\ result = Err(NativeError)
        /\ NativeCalls(log) = <<Ev(NativeOf(intent), FALSE)>>
        /\ Count(log, "abort") = (IF intent = "abort" THEN 1 ELSE 0)

C15_Witness ==
    /\ pc = "returned"
    /\ received = TxNone
    /\ self.on_drop = "Abort"
    /\ intent = "commit"
    /\ handles = 1
    /\ log = <<Ev("do_commit", FALSE), Ev("free_listeners", TRUE)>>

\* The handle was destroyed without commit() / abort() having run.
DestroyedUnfinalized == Destroyed /\ ~self.done

\* The native abort of the destruction was rejected.
DropAbortRejected ==
    DestroyedUnfinalized /\ \E i \in DOMAIN log : log[i] = Ev("abort", FALSE)

\* C16: the destruction of a handle that is not done is one step that
\* returns nothing and receives nothing; when its native abort is rejected
\* the error is discarded and the abort is not called again.
C16_DropCannotFail ==
    /\ [](DestroyedUnfinalized =>
            /\ result = NoResult
            /\ received = TxNone
            /\ Count(log, "recv") = 0
            /\ Count(log, "free_listeners") = 1
            /\ Count(log, "abort") <= 1)
    /\ [](DropAbortRejected =>
            log = <<Ev("free_listeners", TRUE), Ev("abort", FALSE)>>)
    /\ [][(pc \in {"active", "abort_called", "commit_called"} /\ pc' \in {"dropped", "abandoned"}) =>
            (result' = result /\ received' = received /\ chan' = <<>>)]_vars

C16_Witness ==
    /\ pc = "abandoned"
    /\ intent = "abort"
    /\ tx = "finished"
    /\ result = NoResult
    /\ log = <<Ev("free_listeners", TRUE), Ev("abort", FALSE)>>

\* C17: a handle receives one notification at most, the store's, and only
\* in commit() / abort() after the native call was accepted; the listeners
\* are freed after it was received, and once a result was returned the
\* handle is gone and its listeners are freed.
C17_OneNotification ==
    /\ Count(log, "recv") <= 1
    /\ (received # TxNone) <=> (Count(log, "recv") = 1)
    /\ Count(log, "recv") = 1 =>
        /\ pc = "returned"
        /\ received = terminal
        /\ log = <<Ev(NativeOf(intent), TRUE), Ev("recv", TRUE), Ev("free_listeners", TRUE)>>
    /\ result # NoResult => (pc \in Gone /\ ~subscribed)

C17_Witness ==
    /\ pc = "returned"
    /\ intent = "abort"
    /\ received = TxAbort
    /\ result = Ok
    /\ log = <<Ev("abort", TRUE), Ev("recv", TRUE), Ev("free_listeners", TRUE)>>

\* C18: a call of commit() / abort() that was not polled has neither set
\* done nor made a native call; when its future is dropped the handle is
\* destroyed by its policy: one native abort under Abort, also for commit(),
\* and no native call under Commit.
C18_UnpolledCallFollowsPolicy ==
    /\ pc \in {"abort_called", "commit_called"} =>
        (~self.done /\ log = <<>> /\ result = NoResult)
    /\ pc = "abandoned" =>
        /\ ~self.done
        /\ result = NoResult
        /\ received = TxNone
        /\ Count(log, "do_commit") = 0
        /\ Count(log, "abort") = (IF self.on_drop = "Abort" THEN 1 ELSE 0)

C18_Witness ==
    /\ pc = "abandoned"
    /\ intent = "commit"
    /\ self.on_drop = "Abort"
    /\ tx = "abort_requested"
    /\ log = <<Ev("free_listeners", TRUE), Ev("abort", TRUE)>>

\* C19: the native abort of a destruction comes right after the listeners
\* were freed, so the handle whose destruction aborted the transaction has
\* no listener and no channel left for the abort's notification and received
\* nothing.
C19_TeardownBeforeDropAbort ==
    /\ \A i \in DOMAIN log :
        (~self.done /\ log[i].op = "abort") =>
            (i = 2 /\ log[1] = Ev("free_listeners", TRUE))
    /\ ~subscribed => chan = <<>>
    /\ DestroyedUnfinalized => (~subscribed /\ received = TxNone)

C19_Witness ==
    /\ pc = "dropped"
    /\ tx = "finished"
    /\ terminal = TxAbort
    /\ chan = <<>>
    /\ received = TxNone
    /\ log = <<Ev("free_listeners", TRUE), Ev("abort", TRUE)>>
====
